---- MODULE Spec2Model ----
(***************************************************************************)
(* A model of code_splitter.py: the chunkers (process_python_file,         *)
(* process_other_file), the directory walk (recursively_chunk_directory),  *)
(* the embedding client (get_ollama_embedding), the generative client      *)
(* (get_ollama_llm_response) and the __main__ script that strings them     *)
(* together (chunk -> embed -> index -> retrieve -> answer).               *)
(* And a model of main.py's Shredder.chunk_files: the calling thread, the   *)
(* worker threads of its ThreadPoolExecutor and single_file_task.          *)
(*                                                                         *)
(* Text is modelled line by line.  A source file is a sequence of lines,   *)
(* each a record [kind, ind, name]:                                        *)
(*   blank  an empty or blank line                                         *)
(*   ff     a line holding only a form feed: one line for the parser, two  *)
(*          entries for str.splitlines (the form feed and the newline)     *)
(*   stmt   a simple statement                                             *)
(*   def    "def name(...):", adef "async def name(...):", class           *)
(*   bad    text the parser rejects                                        *)
(* ind is the indentation level.  A text (a chunk's content, the context   *)
(* block) is a sequence of such entries.                                   *)
(***************************************************************************)
EXTENDS Integers, Sequences, FiniteSets, TLC

\* ------------------------------------------------------------------ bounds
MaxLines == 3
MaxFiles == 3
MaxTasks == 3            \* the files handed to chunk_files
MaxThreads == 2          \* the worker threads of the executor
MaxIndexed == 11         \* the chunks of the larger index
IndexedTexts == 6        \* the distinct texts among them

\* --------------------------------------------------------- program constants
FallbackSpan == 10
desired_n_neighbors == 10

\* Python's None, and a value that is there
None == <<>>
Some(x) == <<x>>
Get(o) == o[1]

\* ------------------------------------------------------------------- lines
Blank == [kind |-> "blank", ind |-> 0, name |-> ""]
FF == [kind |-> "ff", ind |-> 0, name |-> ""]
Bad == [kind |-> "bad", ind |-> 0, name |-> ""]
Stmt(i) == [kind |-> "stmt", ind |-> i, name |-> ""]
Decl(k, i, n) == [kind |-> k, ind |-> i, name |-> n]

LineSet ==
    {Blank, FF, Bad, Stmt(0), Stmt(1), Decl("class", 0, "C")}
        \cup {Decl("def", i, n) : i \in {0, 1}, n \in {"f", "g"}}
        \cup {Decl("adef", i, "h") : i \in {0, 1}}

IsSpace(p) == p.kind \in {"blank", "ff"}
IsHeader(p) == p.kind \in {"def", "adef", "class"}

Min(a, b) == IF a < b THEN a ELSE b

\* s[a+1 .. b] as Python's s[a:b] (0-based, end exclusive, clamped)
Slice(s, a, b) ==
    LET lo == Min(a, Len(s))
        hi == Min(b, Len(s))
    IN  IF hi <= lo THEN <<>> ELSE SubSeq(s, lo + 1, hi)

RECURSIVE LStrip(_)
LStrip(t) ==
    IF t = <<>> THEN <<>>
    ELSE IF IsSpace(Head(t)) THEN LStrip(Tail(t))
    ELSE t

RECURSIVE RStrip(_)
RStrip(t) ==
    IF t = <<>> THEN <<>>
    ELSE IF IsSpace(t[Len(t)]) THEN RStrip(SubSeq(t, 1, Len(t) - 1))
    ELSE t

\* str.strip(): leading and trailing white space goes, the first line's
\* indentation included
Strip(t) ==
    LET u == RStrip(LStrip(t))
    IN  IF u = <<>> THEN <<>> ELSE <<[Head(u) EXCEPT !.ind = 0]>> \o Tail(u)

\* str.splitlines(keepends=True): a form-feed line makes two entries
RECURSIVE SplitLines(_)
SplitLines(lines) ==
    IF lines = <<>> THEN <<>>
    ELSE (IF Head(lines).kind = "ff" THEN <<FF, Blank>> ELSE <<Head(lines)>>)
             \o SplitLines(Tail(lines))

\* f.read(): the file's text, character for character what splitlines and
\* "".join keep
ReadText(lines) == SplitLines(lines)

\* ------------------------------------------------------------------ parser
RECURSIVE PrevCode(_, _)
PrevCode(lines, i) ==
    IF i <= 1 THEN 0
    ELSE IF IsSpace(lines[i - 1]) THEN PrevCode(lines, i - 1)
    ELSE i - 1

IndentOK(lines, i) ==
    \/ IsSpace(lines[i])
    \/ lines[i].ind = 0
    \/ LET j == PrevCode(lines, i)
       IN  j > 0 /\ (lines[j].ind = 1 \/ IsHeader(lines[j]))

ParseOK(lines) ==
    \A i \in 1..Len(lines) : lines[i].kind # "bad" /\ IndentOK(lines, i)

\* end_lineno of the statement starting on line i: an indented one is a
\* one-liner, a top-level one runs to the last line of its indented body
EndLine(lines, i) ==
    IF lines[i].ind = 1 THEN i
    ELSE LET ends == {j \in i..Len(lines) :
                         /\ ~IsSpace(lines[j])
                         /\ \A k \in (i + 1)..j : IsSpace(lines[k]) \/ lines[k].ind = 1}
         IN  CHOOSE j \in ends : \A k \in ends : k <= j

NodeType(p) ==
    CASE p.kind = "def" -> "FunctionDef"
      [] p.kind = "adef" -> "AsyncFunctionDef"
      [] p.kind = "class" -> "ClassDef"
      [] OTHER -> "Assign"

NodeAt(lines, i) ==
    [type |-> NodeType(lines[i]), name |-> lines[i].name,
     lineno |-> i, end_lineno |-> EndLine(lines, i)]

RECURSIVE LevelNodes(_, _, _)
LevelNodes(lines, d, i) ==
    IF i > Len(lines) THEN <<>>
    ELSE (IF ~IsSpace(lines[i]) /\ lines[i].ind = d
          THEN <<NodeAt(lines, i)>> ELSE <<>>) \o LevelNodes(lines, d, i + 1)

\* ast.walk(ast.parse(source)): the module node, then breadth first
AstWalk(lines) ==
    <<[type |-> "Module", name |-> "", lineno |-> 0, end_lineno |-> 0]>>
        \o LevelNodes(lines, 0, 1) \o LevelNodes(lines, 1, 1)

\* ------------------------------------------------------------------- paths
join(dirpath, filename) == <<dirpath, filename>>
basename(filepath) == filepath[Len(filepath)]
endswith(filename, exts) == filename.ext \in exts

\* ---------------------------------------------------------------- chunkers
get_chunk_content(source_lines, node, has_end) ==
    IF has_end
    THEN Slice(source_lines, node.lineno - 1, node.end_lineno)
    ELSE Slice(source_lines, node.lineno - 1, node.lineno + FallbackSpan)

Chunk(fp, ty, nm, ln, txt) ==
    [file_path |-> fp, type |-> ty, name |-> nm, lineno |-> ln, content |-> txt]

node_chunks(filepath, source_lines, node, has_end) ==
    LET chunk_content == get_chunk_content(source_lines, node, has_end)
    IN  IF node.type = "FunctionDef" /\ chunk_content # <<>>
        THEN <<Chunk(filepath, "function", node.name, node.lineno, Strip(chunk_content))>>
        ELSE IF node.type = "ClassDef" /\ chunk_content # <<>>
        THEN <<Chunk(filepath, "class", node.name, node.lineno, Strip(chunk_content))>>
        ELSE <<>>

RECURSIVE walk_chunks(_, _, _, _)
walk_chunks(filepath, source_lines, nodes, has_end) ==
    IF nodes = <<>> THEN <<>>
    ELSE node_chunks(filepath, source_lines, Head(nodes), has_end)
             \o walk_chunks(filepath, source_lines, Tail(nodes), has_end)

\* a variant: the text is kept as read, not trimmed
module_chunk_untrimmed(filepath, source_code) ==
    IF Strip(source_code) # <<>>
    THEN <<Chunk(filepath, "module", basename(filepath), 1, source_code)>>
    ELSE <<>>

module_chunk(filepath, source_code) ==
    IF Strip(source_code) # <<>>
    THEN <<Chunk(filepath, "module", basename(filepath), 1, Strip(source_code))>>
    ELSE <<>>

\* a variant: the module chunk is appended before the parse
process_python_file_module_first(file, has_end) ==
    IF ~file.readable THEN [raised |-> FALSE, chunks |-> <<>>]
    ELSE LET source_code == ReadText(file.lines)
             source_lines == SplitLines(file.lines)
         IN  IF ~ParseOK(file.lines)
             THEN [raised |-> FALSE, chunks |-> module_chunk(file.path, source_code)]
             ELSE [raised |-> FALSE,
                   chunks |-> module_chunk(file.path, source_code)
                                 \o walk_chunks(file.path, source_lines,
                                                AstWalk(file.lines), has_end)]

\* The result is [raised, chunks]: raised says an exception left the function.
\* A failing open/read (except Exception) and a failing parse (except
\* SyntaxError) both happen before the first append, so chunks is empty then.
process_python_file(file, has_end) ==
    IF ~file.readable THEN [raised |-> FALSE, chunks |-> <<>>]
    ELSE IF ~ParseOK(file.lines) THEN [raised |-> FALSE, chunks |-> <<>>]
    ELSE LET source_code == ReadText(file.lines)
             source_lines == SplitLines(file.lines)
         IN  [raised |-> FALSE,
              chunks |-> module_chunk(file.path, source_code)
                            \o walk_chunks(file.path, source_lines,
                                           AstWalk(file.lines), has_end)]

\* a variant: a failing read is not caught
process_other_file_uncaught(file) ==
    IF ~file.readable THEN [raised |-> TRUE, chunks |-> <<>>]
    ELSE LET content == ReadText(file.lines)
         IN  [raised |-> FALSE,
              chunks |-> IF Strip(content) # <<>>
                         THEN <<Chunk(file.path, "file", basename(file.path), 1,
                                      Strip(content))>>
                         ELSE <<>>]

process_other_file(file) ==
    IF ~file.readable THEN [raised |-> FALSE, chunks |-> <<>>]
    ELSE LET content == ReadText(file.lines)
         IN  [raised |-> FALSE,
              chunks |-> IF Strip(content) # <<>>
                         THEN <<Chunk(file.path, "file", basename(file.path), 1,
                                      Strip(content))>>
                         ELSE <<>>]

\* ------------------------------------------------------------ file system
Denylist == {".jpg", ".png", ".bin", ".class", ".txt"}

root_directory_to_chunk == "codebase"

File(i, e, r, ls) ==
    [path |-> join(root_directory_to_chunk, [stem |-> i, ext |-> e]),
     readable |-> r, lines |-> ls]

RECURSIVE SeqsUpTo(_, _)
SeqsUpTo(S, n) ==
    IF n = 0 THEN {<<>>}
    ELSE LET shorter == SeqsUpTo(S, n - 1)
         IN  shorter \cup {Append(s, x) : s \in {t \in shorter : Len(t) = n - 1}, x \in S}

\* one file of every text of at most MaxLines lines; a file that cannot be
\* read (no permission, bytes that are not UTF-8) has text all the same
AnyFiles ==
    {File(1, e, TRUE, ls) : e \in {".py", ".md"}, ls \in SeqsUpTo(LineSet, MaxLines)}
        \cup {File(1, e, FALSE, <<Stmt(0)>>) : e \in {".py", ".md"}}

\* the kinds of file a directory of the walk holds
FileKinds ==
    {[ext |-> ".py", readable |-> TRUE, lines |-> <<Decl("def", 0, "f"), Stmt(1)>>],
     [ext |-> ".py", readable |-> TRUE,
      lines |-> <<Decl("def", 0, "f"), Decl("def", 0, "g")>>],
     [ext |-> ".py", readable |-> TRUE, lines |-> <<Stmt(0), Bad>>],
     [ext |-> ".py", readable |-> FALSE, lines |-> <<Stmt(0)>>],
     [ext |-> ".md", readable |-> TRUE, lines |-> <<Stmt(0)>>],
     [ext |-> ".md", readable |-> FALSE, lines |-> <<Stmt(0)>>],
     [ext |-> ".md", readable |-> TRUE, lines |-> <<Blank>>],
     [ext |-> ".txt", readable |-> TRUE, lines |-> <<Stmt(0)>>]}

\* the kinds of file a directory of the whole run holds: each yields one
\* chunk at most
RunKinds ==
    {[ext |-> ".py", readable |-> TRUE, lines |-> <<Stmt(0)>>],
     [ext |-> ".py", readable |-> TRUE, lines |-> <<Bad>>],
     [ext |-> ".md", readable |-> TRUE, lines |-> <<Decl("def", 0, "f")>>],
     [ext |-> ".md", readable |-> FALSE, lines |-> <<Stmt(0)>>]}

Directory(kinds) ==
    [i \in 1..Len(kinds) |->
        File(i, kinds[i].ext, kinds[i].readable, kinds[i].lines)]

Directories == {Directory(ks) : ks \in SeqsUpTo(FileKinds, MaxFiles)}
RunDirectories == {Directory(ks) : ks \in SeqsUpTo(RunKinds, MaxFiles)}

\* ------------------------------------------------------------------- state
VARIABLES
    dir_exists,              \* os.path.isdir(root_dir)
    files,                   \* the files under the root, in os.walk order
    has_end_lineno,          \* whether ast nodes carry end_lineno
    pc,                      \* the script's position
    fnext,                   \* the walk's next file
    all_chunks,              \* recursively_chunk_directory's all_chunks
    code_chunks,             \* __main__'s code_chunks
    enext,                   \* the embedding loop's next chunk
    attempts,                \* the embedding calls made: [chunk, resp, value]
    chunks_with_embeddings,
    report,                  \* the "embedded N out of M" line: <<N, M>>
    embeddings_matrix,
    n_neighbors,             \* nn_model.n_neighbors
    query_calls,             \* the query's embedding calls made: [resp, value]
    query_embedding,
    searches,                \* kneighbors calls made
    indices,                 \* indices[0] of the kneighbors call
    retrieved_chunks,
    distances,
    prompt_for_llm,
    llm_calls,               \* the generative calls made: [prompt, resp]
    llm_answer,
    log

\* Shredder.chunk_files (main.py)
VARIABLES
    file_list,               \* chunk_files' argument
    NUM_THREADS,             \* the executor's max_workers
    sh_pc,                   \* the calling thread's position in chunk_files
    future_to_filepath,      \* the futures submitted, in the order of file_list
    work_queue,              \* the executor's queue of tasks not yet started
    workers,                 \* what each worker thread is running: a task or 0
    runs,                    \* how many times single_file_task ran for a file
    collected,               \* the futures as_completed has yielded, in order
    processed_chunks,
    returned                 \* what chunk_files returned

vars ==
    <<dir_exists, files, has_end_lineno, pc, fnext, all_chunks, code_chunks,
      enext, attempts, chunks_with_embeddings, report, embeddings_matrix,
      n_neighbors,
      query_calls, query_embedding, searches, indices, retrieved_chunks,
      distances, prompt_for_llm, llm_calls, llm_answer, log,
      file_list, NUM_THREADS, sh_pc, future_to_filepath, work_queue, workers,
      runs, collected, processed_chunks, returned>>

walkVars == <<dir_exists, files, has_end_lineno>>
embedVars == <<enext, attempts, chunks_with_embeddings, report>>
indexVars == <<embeddings_matrix, n_neighbors>>
queryVars ==
    <<query_calls, query_embedding, searches, indices, retrieved_chunks,
      distances, prompt_for_llm, llm_calls, llm_answer>>

shredVars ==
    <<file_list, NUM_THREADS, sh_pc, future_to_filepath, work_queue, workers,
      runs, collected, processed_chunks, returned>>

\* chunk_files is not called: main.py is another program
ShredderOff ==
    /\ file_list = <<>>
    /\ NUM_THREADS = 1
    /\ sh_pc = "off"
    /\ future_to_filepath = <<>>
    /\ work_queue = <<>>
    /\ workers = <<0>>
    /\ runs = <<>>
    /\ collected = <<>>
    /\ processed_chunks = <<>>
    /\ returned = None

InitRest ==
    /\ ShredderOff
    /\ pc = "walk"
    /\ fnext = 1
    /\ all_chunks = <<>>
    /\ code_chunks = <<>>
    /\ enext = 1
    /\ attempts = <<>>
    /\ chunks_with_embeddings = <<>>
    /\ report = None
    /\ embeddings_matrix = <<>>
    /\ n_neighbors = 0
    /\ query_calls = <<>>
    /\ query_embedding = None
    /\ searches = 0
    /\ indices = <<>>
    /\ retrieved_chunks = <<>>
    /\ distances = <<>>
    /\ prompt_for_llm = None
    /\ llm_calls = <<>>
    /\ llm_answer = None
    /\ log = <<>>

\* a run of the script over a directory of at most MaxFiles files
Init ==
    /\ dir_exists \in BOOLEAN
    /\ files \in (IF dir_exists THEN RunDirectories ELSE {<<>>})
    /\ has_end_lineno = TRUE
    /\ InitRest

\* the walk alone, over one file of any text or a directory of known files
InitWalk ==
    /\ dir_exists \in BOOLEAN
    /\ files \in (IF dir_exists THEN {<<f>> : f \in AnyFiles} \cup Directories
                                ELSE {<<>>})
    /\ has_end_lineno \in BOOLEAN
    /\ InitRest

\* ---------------------------------------------- recursively_chunk_directory
NotADirectory ==
    /\ pc = "walk"
    /\ ~dir_exists
    /\ pc' = "embed"
    /\ code_chunks' = all_chunks
    /\ log' = Append(log, "dir_not_found")
    /\ UNCHANGED shredVars
    /\ UNCHANGED <<walkVars, fnext, all_chunks, embedVars, indexVars, queryVars>>

file_chunks(file) ==
    IF endswith(basename(file.path), {".py"})
    THEN process_python_file(file, has_end_lineno)
    ELSE IF ~endswith(basename(file.path), Denylist)
    THEN process_other_file(file)
    ELSE [raised |-> FALSE, chunks |-> <<>>]

WalkFile ==
    /\ pc = "walk"
    /\ dir_exists
    /\ fnext <= Len(files)
    /\ LET r == file_chunks(files[fnext])
       IN  IF r.raised
           THEN /\ pc' = "aborted"
                /\ UNCHANGED <<fnext, all_chunks>>
           ELSE /\ pc' = pc
                /\ fnext' = fnext + 1
                /\ all_chunks' = all_chunks \o r.chunks
    /\ UNCHANGED shredVars
    /\ UNCHANGED <<walkVars, code_chunks, embedVars, indexVars, queryVars, log>>

WalkDone ==
    /\ pc = "walk"
    /\ dir_exists
    /\ fnext > Len(files)
    /\ pc' = "embed"
    /\ code_chunks' = all_chunks
    /\ UNCHANGED shredVars
    /\ UNCHANGED <<walkVars, fnext, all_chunks, embedVars, indexVars, queryVars, log>>

NextWalk == NotADirectory \/ WalkFile \/ WalkDone

WalkSpec == InitWalk /\ [][NextWalk]_vars

\* -------------------------------------------------------- embedding client
\* The embedding model is a function of the text: equal texts get equal
\* vectors.  A vector counts the declarations and the statements of the text.
RECURSIVE CountKind(_, _)
CountKind(t, kinds) ==
    IF t = <<>> THEN 0
    ELSE (IF Head(t).kind \in kinds THEN 1 ELSE 0) + CountKind(Tail(t), kinds)

Vector(text) ==
    <<1 + CountKind(text, {"def", "adef", "class"}), 1 + CountKind(text, {"stmt"})>>

query_text == "How does the main application process data?"
QueryVectors == {<<1, 2>>, <<2, 1>>}

\* what the POST to /api/embeddings can come to
EmbFailures ==
    {[kind |-> "unreachable", embedding |-> None],
     [kind |-> "http_error", embedding |-> None],
     [kind |-> "no_field", embedding |-> None],
     [kind |-> "bad_json", embedding |-> None]}

EmbResponses(vectors) ==
    EmbFailures \cup {[kind |-> "ok", embedding |-> Some(v)] : v \in vectors \cup {<<>>}}

\* a variant: an HTTP error status is not caught
get_ollama_embedding_uncaught(resp) ==
    CASE resp.kind = "unreachable" -> [raised |-> FALSE, value |-> None]
      [] resp.kind = "http_error" -> [raised |-> TRUE, value |-> None]
      [] resp.kind = "bad_json" -> [raised |-> FALSE, value |-> None]
      [] resp.kind = "no_field" -> [raised |-> FALSE, value |-> None]
      [] resp.kind = "ok" -> [raised |-> FALSE, value |-> resp.embedding]

\* The result is [raised, value]: raised says an exception left the function.
get_ollama_embedding(resp) ==
    CASE resp.kind = "unreachable" -> [raised |-> FALSE, value |-> None]
      [] resp.kind = "http_error" -> [raised |-> FALSE, value |-> None]
      [] resp.kind = "bad_json" -> [raised |-> FALSE, value |-> None]
      [] resp.kind = "no_field" -> [raised |-> FALSE, value |-> None]
      [] resp.kind = "ok" -> [raised |-> FALSE, value |-> resp.embedding]

\* ------------------------------------------------------- generative client
NoValidText == "No valid text response from Ollama LLM."
Answers == {"It reads the rows and sums them.", NoValidText}

\* what the POST to /api/chat can come to
LLMResponses ==
    {[kind |-> "unreachable", content |-> None],
     [kind |-> "http_error", content |-> None],
     [kind |-> "no_content", content |-> None],
     [kind |-> "bad_json", content |-> None]}
        \cup {[kind |-> "ok", content |-> a] : a \in Answers}

get_ollama_llm_response(resp) ==
    CASE resp.kind = "ok" -> resp.content
      [] resp.kind = "no_content" -> NoValidText
      [] resp.kind = "unreachable" -> "Error: Could not connect to Ollama LLM."
      [] resp.kind = "http_error" -> "Error from Ollama LLM API: 500 Server Error"
      [] resp.kind = "bad_json" ->
            "An unexpected error occurred with Ollama LLM: Expecting value"

\* ------------------------------------------------------------ vector index
RECURSIVE Dot(_, _)
Dot(a, b) ==
    IF a = <<>> \/ b = <<>> THEN 0
    ELSE Head(a) * Head(b) + Dot(Tail(a), Tail(b))

\* the cosine of the angle between q and a, squared, as <<numerator,
\* denominator>> (no component is negative, so neither is the cosine)
Cos2(q, a) == <<Dot(q, a) * Dot(q, a), Dot(q, q) * Dot(a, a)>>

\* cosine distance of x = 1 - cos; x is nearer than y when its cosine is larger
Nearer(x, y) == x[1] * y[2] > y[1] * x[2]

\* a variant: the k farthest rows, farthest first
RECURSIVE kneighbors_farthest(_, _, _, _)
kneighbors_farthest(matrix, q, rows, k) ==
    IF k = 0 \/ rows = {} THEN {<<>>}
    ELSE LET first == {i \in rows :
                          \A j \in rows : ~Nearer(Cos2(q, matrix[i]), Cos2(q, matrix[j]))}
         IN  UNION {{<<i>> \o r : r \in kneighbors_farthest(matrix, q, rows \ {i}, k - 1)} :
                        i \in first}

\* NearestNeighbors.kneighbors: the index sequences it can return, the k
\* nearest rows, nearest first; rows at the same distance come in any order
RECURSIVE kneighbors(_, _, _, _)
kneighbors(matrix, q, rows, k) ==
    IF k = 0 \/ rows = {} THEN {<<>>}
    ELSE LET first == {i \in rows :
                          \A j \in rows : ~Nearer(Cos2(q, matrix[j]), Cos2(q, matrix[i]))}
         IN  UNION {{<<i>> \o r : r \in kneighbors(matrix, q, rows \ {i}, k - 1)} :
                        i \in first}

SameWidth(matrix) ==
    \A i \in 1..Len(matrix) : Len(matrix[i]) = Len(matrix[1])

\* a variant: the texts follow one another with nothing between them
RECURSIVE JoinTexts_unseparated(_)
JoinTexts_unseparated(texts) ==
    IF texts = <<>> THEN <<>>
    ELSE texts[1] \o JoinTexts_unseparated(Tail(texts))

\* "\n\n".join(texts): each text has lost its last line break to strip(), so
\* what sits between two texts is one empty line
RECURSIVE JoinTexts(_)
JoinTexts(texts) ==
    IF texts = <<>> THEN <<>>
    ELSE IF Len(texts) = 1 THEN texts[1]
    ELSE texts[1] \o <<Blank>> \o JoinTexts(Tail(texts))

\* ---------------------------------------------------- __main__: embedding
\* Python's truth value of what get_ollama_embedding returned
Truthy(v) == v # None /\ Get(v) # <<>>

\* chunk['embedding'] = np.array(embedding)
AddEmbedding(chunk, v) ==
    [k \in DOMAIN chunk \cup {"embedding"} |->
        IF k = "embedding" THEN v ELSE chunk[k]]

\* a variant: the loop ends at the first chunk that gets no embedding
EmbedChunk_break ==
    /\ pc = "embed"
    /\ enext <= Len(code_chunks)
    /\ \E resp \in EmbResponses({Vector(code_chunks[enext].content)}) :
          LET r == get_ollama_embedding(resp)
              chunk == AddEmbedding(code_chunks[enext], Get(r.value))
          IN  /\ attempts' = Append(attempts,
                      [chunk |-> enext, resp |-> resp, raised |-> r.raised,
                       value |-> r.value])
              /\ pc' = pc
              /\ IF Truthy(r.value)
                 THEN /\ enext' = enext + 1
                      /\ code_chunks' = [code_chunks EXCEPT ![enext] = chunk]
                      /\ chunks_with_embeddings' =
                             Append(chunks_with_embeddings, chunk)
                 ELSE /\ enext' = Len(code_chunks) + 1
                      /\ UNCHANGED <<code_chunks, chunks_with_embeddings>>
    /\ UNCHANGED shredVars
    /\ UNCHANGED <<walkVars, fnext, all_chunks, report, indexVars, queryVars, log>>

EmbedChunk ==
    /\ pc = "embed"
    /\ enext <= Len(code_chunks)
    /\ \E resp \in EmbResponses({Vector(code_chunks[enext].content)}) :
          LET r == get_ollama_embedding(resp)
              chunk == AddEmbedding(code_chunks[enext], Get(r.value))
          IN  /\ attempts' = Append(attempts,
                      [chunk |-> enext, resp |-> resp, raised |-> r.raised,
                       value |-> r.value])
              /\ IF r.raised
                 THEN /\ pc' = "crashed"
                      /\ UNCHANGED <<enext, code_chunks, chunks_with_embeddings>>
                 ELSE /\ pc' = pc
                      /\ enext' = enext + 1
                      /\ IF Truthy(r.value)
                         THEN /\ code_chunks' = [code_chunks EXCEPT ![enext] = chunk]
                              /\ chunks_with_embeddings' =
                                     Append(chunks_with_embeddings, chunk)
                         ELSE UNCHANGED <<code_chunks, chunks_with_embeddings>>
    /\ UNCHANGED shredVars
    /\ UNCHANGED <<walkVars, fnext, all_chunks, report, indexVars, queryVars, log>>

\* the loop is over (or there was no chunk to embed); the report line
EmbedDone ==
    /\ pc = "embed"
    /\ enext > Len(code_chunks)
    /\ log' = log \o (IF code_chunks = <<>> THEN <<"no_chunks">> ELSE <<>>)
                  \o <<"report">>
    /\ report' = <<Len(chunks_with_embeddings), Len(code_chunks)>>
    /\ pc' = "index"
    /\ UNCHANGED shredVars
    /\ UNCHANGED <<walkVars, fnext, all_chunks, code_chunks, enext, attempts,
                   chunks_with_embeddings, indexVars, queryVars>>

\* ------------------------------------------------------- __main__: indexing
\* a variant: with nothing to index the script goes on to the query
NoIndex_goes_on ==
    /\ pc = "index"
    /\ chunks_with_embeddings = <<>>
    /\ log' = Append(log, "no_index")
    /\ pc' = "query"
    /\ UNCHANGED shredVars
    /\ UNCHANGED <<walkVars, fnext, all_chunks, code_chunks, embedVars, indexVars,
                   queryVars>>

NoIndex ==
    /\ pc = "index"
    /\ chunks_with_embeddings = <<>>
    /\ log' = Append(log, "no_index")
    /\ pc' = "done"
    /\ UNCHANGED shredVars
    /\ UNCHANGED <<walkVars, fnext, all_chunks, code_chunks, embedVars, indexVars,
                   queryVars>>

\* a variant: the index is built as soon as one chunk has an embedding
BuildIndex_early ==
    /\ pc \in {"embed", "index"}
    /\ chunks_with_embeddings # <<>>
    /\ LET matrix == [i \in 1..Len(chunks_with_embeddings) |->
                          chunks_with_embeddings[i].embedding]
       IN  IF SameWidth(matrix)
           THEN /\ embeddings_matrix' = matrix
                /\ n_neighbors' = Min(desired_n_neighbors, Len(matrix))
                /\ log' = Append(log, "index_built")
                /\ pc' = "query"
           ELSE /\ pc' = "crashed"
                /\ UNCHANGED <<indexVars, log>>
    /\ UNCHANGED shredVars
    /\ UNCHANGED <<walkVars, fnext, all_chunks, code_chunks, embedVars, queryVars>>

BuildIndex ==
    /\ pc = "index"
    /\ chunks_with_embeddings # <<>>
    /\ LET matrix == [i \in 1..Len(chunks_with_embeddings) |->
                          chunks_with_embeddings[i].embedding]
       IN  IF SameWidth(matrix)
           THEN /\ embeddings_matrix' = matrix
                /\ n_neighbors' = Min(desired_n_neighbors, Len(matrix))
                /\ log' = Append(log, "index_built")
                /\ pc' = "query"
           ELSE /\ pc' = "crashed"
                /\ UNCHANGED <<indexVars, log>>
    /\ UNCHANGED shredVars
    /\ UNCHANGED <<walkVars, fnext, all_chunks, code_chunks, embedVars, queryVars>>

\* ------------------------------------------------------ __main__: retrieval
QueryEmbed ==
    /\ pc = "query"
    /\ \E resp \in EmbResponses(QueryVectors) :
          LET r == get_ollama_embedding(resp)
          IN  /\ query_calls' = Append(query_calls,
                      [chunk |-> 0, resp |-> resp, raised |-> r.raised,
                       value |-> r.value])
              /\ IF r.raised
                 THEN pc' = "crashed" /\ UNCHANGED query_embedding
                 ELSE pc' = "search" /\ query_embedding' = r.value
    /\ UNCHANGED shredVars
    /\ UNCHANGED <<walkVars, fnext, all_chunks, code_chunks, embedVars, indexVars,
                   searches, indices, retrieved_chunks, distances,
                   prompt_for_llm, llm_calls, llm_answer, log>>

\* a variant: the search does not look at whether the query has an embedding
Search_unguarded ==
    /\ pc = "search"
    /\ searches' = searches + 1
    /\ IF query_embedding = None
          \/ Len(Get(query_embedding)) # Len(embeddings_matrix[1])
       THEN /\ pc' = "crashed"
            /\ UNCHANGED <<indices, retrieved_chunks, distances>>
       ELSE \E found \in
                kneighbors(embeddings_matrix, Get(query_embedding),
                           1..Len(embeddings_matrix),
                           Min(n_neighbors, Len(embeddings_matrix))) :
                /\ indices' = found
                /\ retrieved_chunks' =
                       [i \in 1..Len(found) |-> chunks_with_embeddings[found[i]]]
                /\ distances' =
                       [i \in 1..Len(found) |->
                           Cos2(Get(query_embedding), embeddings_matrix[found[i]])]
                /\ pc' = "llm"
    /\ UNCHANGED shredVars
    /\ UNCHANGED <<walkVars, fnext, all_chunks, code_chunks, embedVars, indexVars,
                   query_calls, query_embedding, prompt_for_llm, llm_calls,
                   llm_answer, log>>

Search ==
    /\ pc = "search"
    /\ IF query_embedding = None
       THEN /\ log' = Append(log, "query_embedding_failed")
            /\ pc' = "llm"
            /\ UNCHANGED <<searches, indices, retrieved_chunks, distances>>
       ELSE LET actual_n_neighbors_for_query ==
                    Min(n_neighbors, Len(embeddings_matrix))
                original_chunks == chunks_with_embeddings
            IN  IF actual_n_neighbors_for_query = 0
                THEN /\ log' = Append(log, "no_neighbors")
                     /\ pc' = "llm"
                     /\ UNCHANGED <<searches, indices, retrieved_chunks, distances>>
                ELSE /\ searches' = searches + 1
                     /\ log' = log
                     /\ IF Len(Get(query_embedding)) # Len(embeddings_matrix[1])
                        THEN /\ pc' = "crashed"
                             /\ UNCHANGED <<indices, retrieved_chunks, distances>>
                        ELSE \E found \in
                                 kneighbors(embeddings_matrix, Get(query_embedding),
                                            1..Len(embeddings_matrix),
                                            actual_n_neighbors_for_query) :
                                 /\ indices' = found
                                 /\ retrieved_chunks' =
                                        [i \in 1..Len(found) |->
                                            original_chunks[found[i]]]
                                 /\ distances' =
                                        [i \in 1..Len(found) |->
                                            Cos2(Get(query_embedding),
                                                 embeddings_matrix[found[i]])]
                                 /\ pc' = "llm"
    /\ UNCHANGED shredVars
    /\ UNCHANGED <<walkVars, fnext, all_chunks, code_chunks, embedVars, indexVars,
                   query_calls, query_embedding, prompt_for_llm, llm_calls,
                   llm_answer>>

\* ------------------------------------------------- __main__: LLM integration
\* a variant: the index is dropped once the prompt was sent
AskLLM_drops_index ==
    /\ pc = "llm"
    /\ query_embedding # None /\ retrieved_chunks # <<>>
    /\ LET context_text ==
               JoinTexts([i \in 1..Len(retrieved_chunks) |->
                             retrieved_chunks[i].content])
           prompt == <<context_text, query_text>>
       IN  \E resp \in LLMResponses :
              /\ prompt_for_llm' = Some(prompt)
              /\ llm_calls' = Append(llm_calls, [prompt |-> prompt, resp |-> resp])
              /\ llm_answer' = Some(get_ollama_llm_response(resp))
    /\ log' = Append(log, "llm_answer")
    /\ pc' = "done"
    /\ embeddings_matrix' = <<>>
    /\ UNCHANGED shredVars
    /\ UNCHANGED <<walkVars, fnext, all_chunks, code_chunks, embedVars, n_neighbors,
                   query_calls, query_embedding, searches, indices,
                   retrieved_chunks, distances>>

AskLLM ==
    /\ pc = "llm"
    /\ query_embedding # None /\ retrieved_chunks # <<>>
    /\ LET context_text ==
               JoinTexts([i \in 1..Len(retrieved_chunks) |->
                             retrieved_chunks[i].content])
           prompt == <<context_text, query_text>>
       IN  \E resp \in LLMResponses :
              /\ prompt_for_llm' = Some(prompt)
              /\ llm_calls' = Append(llm_calls, [prompt |-> prompt, resp |-> resp])
              /\ llm_answer' = Some(get_ollama_llm_response(resp))
    /\ log' = Append(log, "llm_answer")
    /\ pc' = "done"
    /\ UNCHANGED shredVars
    /\ UNCHANGED <<walkVars, fnext, all_chunks, code_chunks, embedVars, indexVars,
                   query_calls, query_embedding, searches, indices,
                   retrieved_chunks, distances>>

SkipLLM ==
    /\ pc = "llm"
    /\ ~(query_embedding # None /\ retrieved_chunks # <<>>)
    /\ log' = Append(log, "skip_llm")
    /\ pc' = "done"
    /\ UNCHANGED shredVars
    /\ UNCHANGED <<walkVars, fnext, all_chunks, code_chunks, embedVars, indexVars,
                   queryVars>>

Next ==
    \/ NotADirectory
    \/ WalkFile
    \/ WalkDone
    \/ EmbedChunk
    \/ EmbedDone
    \/ NoIndex
    \/ BuildIndex
    \/ QueryEmbed
    \/ Search
    \/ AskLLM
    \/ SkipLLM

Spec == Init /\ [][Next]_vars

\* ------------------------------------------- the query over a larger index
\* A directory of n text files whose chunks were all embedded: file i holds
\* IndexedTexts - ((i - 1) % IndexedTexts) statements, so the texts (and with them the
\* vectors) repeat every IndexedTexts files and the files farthest from the
\* query come first.
IndexedText(i) ==
    [j \in 1..(IndexedTexts - ((i - 1) % IndexedTexts)) |-> Stmt(0)]

IndexedDirectory(n) ==
    [i \in 1..n |-> File(i, ".md", TRUE, IndexedText(i))]

IndexedChunks(n) ==
    [i \in 1..n |-> process_other_file(IndexedDirectory(n)[i]).chunks[1]]

\* the script's state at line 243, every embedding call having succeeded
InitQuery ==
    \E n \in 0..MaxIndexed :
        /\ dir_exists = TRUE
        /\ files = IndexedDirectory(n)
        /\ has_end_lineno = TRUE
        /\ pc = "index"
        /\ fnext = n + 1
        /\ all_chunks = IndexedChunks(n)
        /\ code_chunks =
               [i \in 1..n |->
                   AddEmbedding(IndexedChunks(n)[i], Vector(IndexedChunks(n)[i].content))]
        /\ enext = n + 1
        /\ attempts =
               [i \in 1..n |->
                   [chunk |-> i,
                    resp |-> [kind |-> "ok",
                              embedding |-> Some(Vector(IndexedChunks(n)[i].content))],
                    raised |-> FALSE,
                    value |-> Some(Vector(IndexedChunks(n)[i].content))]]
        /\ chunks_with_embeddings = code_chunks
        /\ report = <<n, n>>
        /\ embeddings_matrix = <<>>
        /\ n_neighbors = 0
        /\ query_calls = <<>>
        /\ query_embedding = None
        /\ searches = 0
        /\ indices = <<>>
        /\ retrieved_chunks = <<>>
        /\ distances = <<>>
        /\ prompt_for_llm = None
        /\ llm_calls = <<>>
        /\ llm_answer = None
        /\ log = (IF n = 0 THEN <<"no_chunks">> ELSE <<>>) \o <<"report">>
        /\ ShredderOff

NextQuery ==
    \/ NoIndex
    \/ BuildIndex
    \/ QueryEmbed
    \/ Search
    \/ AskLLM
    \/ SkipLLM

QuerySpec == InitQuery /\ [][NextQuery]_vars

\* ------------------------------------------------ main.py: Shredder
\* the script of code_splitter.py is not run
SplitterOff ==
    /\ dir_exists = FALSE
    /\ files = <<>>
    /\ has_end_lineno = TRUE
    /\ pc = "off"
    /\ fnext = 1
    /\ all_chunks = <<>>
    /\ code_chunks = <<>>
    /\ enext = 1
    /\ attempts = <<>>
    /\ chunks_with_embeddings = <<>>
    /\ report = None
    /\ embeddings_matrix = <<>>
    /\ n_neighbors = 0
    /\ query_calls = <<>>
    /\ query_embedding = None
    /\ searches = 0
    /\ indices = <<>>
    /\ retrieved_chunks = <<>>
    /\ distances = <<>>
    /\ prompt_for_llm = None
    /\ llm_calls = <<>>
    /\ llm_answer = None
    /\ log = <<>>

splitterVars ==
    <<walkVars, pc, fnext, all_chunks, code_chunks, embedVars, indexVars,
      queryVars, log>>

\* the files find_compatible_files can hand over: one that is gone when the
\* task opens it, one that cannot be read, an empty one, one of white space,
\* one of text
TaskKinds ==
    {[exists |-> FALSE, readable |-> FALSE, lines |-> <<>>],
     [exists |-> TRUE, readable |-> FALSE, lines |-> <<Stmt(0)>>],
     [exists |-> TRUE, readable |-> TRUE, lines |-> <<>>],
     [exists |-> TRUE, readable |-> TRUE, lines |-> <<Blank>>],
     [exists |-> TRUE, readable |-> TRUE, lines |-> <<Stmt(0)>>]}

TaskFile(i, k) ==
    [path |-> join(root_directory_to_chunk, [stem |-> i, ext |-> ".py"]),
     exists |-> k.exists, readable |-> k.readable, lines |-> k.lines]

FileLists ==
    {[i \in 1..Len(ks) |-> TaskFile(i, ks[i])] : ks \in SeqsUpTo(TaskKinds, MaxTasks)}

generate_md5(input) == <<"md5", input>>

\* f.readlines() gives a list of lines, f.read() would give a str
readlines(file) == [type |-> "list", value |-> file.lines]
HasStrip(object) == object.type = "str"

\* The result is [raised, value]: every exception is caught inside the task.
single_file_task(file) ==
    IF ~file.exists THEN [raised |-> FALSE, value |-> None]
    ELSE IF ~file.readable THEN [raised |-> FALSE, value |-> None]
    ELSE LET meta_file_path == file.path
             file_content == readlines(file)
         IN  IF ~HasStrip(file_content)
             THEN [raised |-> FALSE, value |-> None]
             ELSE IF Strip(file_content.value) = <<>>
             THEN [raised |-> FALSE, value |-> None]
             ELSE [raised |-> FALSE,
                   value |-> Some([content |-> file_content,
                                   metadata |->
                                       [file_path |-> meta_file_path,
                                        file_name |-> basename(meta_file_path),
                                        uuid |-> generate_md5(meta_file_path)]])]

InitShred ==
    /\ SplitterOff
    /\ file_list \in FileLists
    /\ NUM_THREADS \in 1..MaxThreads
    /\ sh_pc = "start"
    /\ future_to_filepath = <<>>
    /\ work_queue = <<>>
    /\ workers = [w \in 1..NUM_THREADS |-> 0]
    /\ runs = [i \in 1..Len(file_list) |-> 0]
    /\ collected = <<>>
    /\ processed_chunks = <<>>
    /\ returned = None

\* lines 121-123
EmptyList ==
    /\ sh_pc = "start"
    /\ file_list = <<>>
    /\ processed_chunks' = <<>>
    /\ sh_pc' = "raised"
    /\ UNCHANGED <<file_list, NUM_THREADS, future_to_filepath, work_queue, workers,
                   runs, collected, returned>>
    /\ UNCHANGED splitterVars

\* lines 121-126
Start ==
    /\ sh_pc = "start"
    /\ file_list # <<>>
    /\ processed_chunks' = <<>>
    /\ sh_pc' = "submit"
    /\ UNCHANGED <<file_list, NUM_THREADS, future_to_filepath, work_queue, workers,
                   runs, collected, returned>>
    /\ UNCHANGED splitterVars

\* executor.submit for the next file of the list
Submit ==
    /\ sh_pc = "submit"
    /\ Len(future_to_filepath) < Len(file_list)
    /\ LET i == Len(future_to_filepath) + 1
       IN  /\ future_to_filepath' =
                  Append(future_to_filepath,
                         [file_path |-> file_list[i].path, state |-> "pending",
                          raised |-> FALSE, result |-> None])
           /\ work_queue' = Append(work_queue, i)
    /\ UNCHANGED <<file_list, NUM_THREADS, sh_pc, workers, runs, collected,
                   processed_chunks, returned>>
    /\ UNCHANGED splitterVars

\* the comprehension is over: the with block is left
SubmitDone ==
    /\ sh_pc = "submit"
    /\ Len(future_to_filepath) = Len(file_list)
    /\ sh_pc' = "shutdown"
    /\ UNCHANGED <<file_list, NUM_THREADS, future_to_filepath, work_queue, workers,
                   runs, collected, processed_chunks, returned>>
    /\ UNCHANGED splitterVars

\* a variant: leaving the with block does not wait for the tasks
Shutdown_nowait ==
    /\ sh_pc = "shutdown"
    /\ sh_pc' = "collect"
    /\ UNCHANGED <<file_list, NUM_THREADS, future_to_filepath, work_queue, workers,
                   runs, collected, processed_chunks, returned>>
    /\ UNCHANGED splitterVars

\* executor.__exit__: shutdown(wait=True) returns when every task has ended
Shutdown ==
    /\ sh_pc = "shutdown"
    /\ \A i \in 1..Len(future_to_filepath) : future_to_filepath[i].state = "finished"
    /\ sh_pc' = "collect"
    /\ UNCHANGED <<file_list, NUM_THREADS, future_to_filepath, work_queue, workers,
                   runs, collected, processed_chunks, returned>>
    /\ UNCHANGED splitterVars

\* a worker thread that is free takes the oldest task of the queue
WorkerTake(w) ==
    /\ workers[w] = 0
    /\ work_queue # <<>>
    /\ workers' = [workers EXCEPT ![w] = Head(work_queue)]
    /\ work_queue' = Tail(work_queue)
    /\ future_to_filepath' =
           [future_to_filepath EXCEPT ![Head(work_queue)].state = "running"]
    /\ UNCHANGED <<file_list, NUM_THREADS, sh_pc, runs, collected, processed_chunks,
                   returned>>
    /\ UNCHANGED splitterVars

\* the worker thread runs single_file_task and sets the future's result
WorkerRun(w) ==
    /\ workers[w] # 0
    /\ LET i == workers[w]
           r == single_file_task(file_list[i])
       IN  /\ future_to_filepath' =
                  [future_to_filepath EXCEPT ![i].state = "finished",
                                             ![i].raised = r.raised,
                                             ![i].result = r.value]
           /\ runs' = [runs EXCEPT ![i] = runs[i] + 1]
    /\ workers' = [workers EXCEPT ![w] = 0]
    /\ UNCHANGED <<file_list, NUM_THREADS, sh_pc, work_queue, collected,
                   processed_chunks, returned>>
    /\ UNCHANGED splitterVars

\* one turn of the loop over as_completed: it yields, in no fixed order, a
\* future that has ended and was not yielded yet
Collect ==
    /\ sh_pc = "collect"
    /\ \E i \in 1..Len(future_to_filepath) :
          /\ future_to_filepath[i].state = "finished"
          /\ \A k \in 1..Len(collected) : collected[k] # i
          /\ collected' = Append(collected, i)
          /\ LET chunk_data == future_to_filepath[i].result
             IN  IF ~future_to_filepath[i].raised /\ chunk_data # None
                 THEN processed_chunks' = Append(processed_chunks, Get(chunk_data))
                 ELSE UNCHANGED processed_chunks
    /\ UNCHANGED <<file_list, NUM_THREADS, sh_pc, future_to_filepath, work_queue,
                   workers, runs, returned>>
    /\ UNCHANGED splitterVars

\* every future was yielded; the function ends without a return statement
Finish ==
    /\ sh_pc = "collect"
    /\ Len(collected) = Len(future_to_filepath)
    /\ sh_pc' = "returned"
    /\ returned' = None
    /\ UNCHANGED <<file_list, NUM_THREADS, future_to_filepath, work_queue, workers,
                   runs, collected, processed_chunks>>
    /\ UNCHANGED splitterVars

NextShred ==
    \/ EmptyList
    \/ Start
    \/ Submit
    \/ SubmitDone
    \/ Shutdown
    \/ \E w \in 1..NUM_THREADS : WorkerTake(w)
    \/ \E w \in 1..NUM_THREADS : WorkerRun(w)
    \/ Collect
    \/ Finish

ShredSpec == InitShred /\ [][NextShred]_vars

\* ------------------------------------------------- what the walk was given
Processed == 1..(fnext - 1)
IsPy(i) == basename(files[i].path).ext = ".py"
IsDenied(i) == basename(files[i].path).ext \in Denylist
Text(i) == ReadText(files[i].lines)
ReadFails(i) == ~IsDenied(i) /\ ~files[i].readable
ParseFails(i) == IsPy(i) /\ files[i].readable /\ ~ParseOK(files[i].lines)
Failed(i) == ReadFails(i) \/ ParseFails(i)
Parsed(i) == IsPy(i) /\ files[i].readable /\ ParseOK(files[i].lines)
BlankText(i) == \A k \in 1..Len(Text(i)) : IsSpace(Text(i)[k])

\* the chunks of file i among the chunks collected so far
ChunksOf(i) == SelectSeq(all_chunks, LAMBDA c : c.file_path = files[i].path)
ModulesOf(i) == SelectSeq(ChunksOf(i), LAMBDA c : c.type = "module")
WalkReturned == pc = "embed" /\ dir_exists

Contributes(j) ==
    /\ ~BlankText(j)
    /\ \/ Parsed(j)
       \/ ~IsPy(j) /\ ~IsDenied(j) /\ files[j].readable

RECURSIVE ConcatOfSound(_)
ConcatOfSound(n) ==
    IF n = 0 THEN <<>>
    ELSE ConcatOfSound(n - 1)
            \o (IF Failed(n) THEN <<>> ELSE file_chunks(files[n]).chunks)

C4_NoBlankChunk ==
    /\ \A k \in 1..Len(all_chunks) : Strip(all_chunks[k].content) # <<>>
    /\ \A i \in Processed : BlankText(i) => ChunksOf(i) = <<>>

\* -------------------------------------------------------------------- C5
DeclType(p) == IF p.kind = "class" THEN "class" ELSE "function"

DeclChunks(i, j) ==
    SelectSeq(ChunksOf(i),
              LAMBDA c : /\ c.type = DeclType(files[i].lines[j])
                         /\ c.name = files[i].lines[j].name
                         /\ c.lineno = j)

\* C5 as stated: in a parsed file every function declaration (async and
\* nested ones too) and every class declaration has exactly one chunk, of its
\* kind, with its name and its first line, and no such chunk comes before the
\* module chunk.
C5_EveryDeclaration ==
    \A i \in Processed :
        Parsed(i) =>
            /\ \A j \in 1..Len(files[i].lines) :
                   IsHeader(files[i].lines[j]) => Len(DeclChunks(i, j)) = 1
            /\ \A k \in 2..Len(ChunksOf(i)) : ChunksOf(i)[k].type # "module"

\* ---------------------------------------------------- what the run was given
EmbeddingOver == pc \notin {"walk", "embed"}
RunOver == pc = "done"
Said(msg) == \E k \in 1..Len(log) : log[k] = msg

ReturnedSomething(v) == v # None
ReturnedVector(v) == v # None /\ Len(Get(v)) > 0

\* the chunks of the first n calls whose call returned something (a vector
\* that is not empty, with nonEmpty), in order, each with what was returned as
\* its embedding
RECURSIVE Embedded(_, _)
Embedded(n, nonEmpty) ==
    IF n = 0 THEN <<>>
    ELSE Embedded(n - 1, nonEmpty)
            \o (IF (IF nonEmpty THEN ReturnedVector(attempts[n].value)
                                ELSE ReturnedSomething(attempts[n].value))
                THEN <<AddEmbedding(all_chunks[attempts[n].chunk],
                                    Get(attempts[n].value))>>
                ELSE <<>>)

AttemptedInTurn ==
    /\ \A k \in 1..Len(attempts) : attempts[k].chunk = k
    /\ Len(attempts) = enext - 1
    /\ EmbeddingOver => Len(attempts) = Len(code_chunks)

\* -------------------------------------------------------------------- C6
\* C6 as stated: whatever the embedding calls come to, every chunk is
\* attempted once, in turn, a failure stops nothing, and the embedded chunks
\* are the chunks whose call returned something other than None, in order;
\* the report counts them.
C6_Original ==
    /\ AttemptedInTurn
    /\ chunks_with_embeddings = Embedded(Len(attempts), FALSE)
    /\ EmbeddingOver =>
          report = <<Len(Embedded(Len(code_chunks), FALSE)), Len(code_chunks)>>

\* C6 as amended: the same, the embedded chunks being those whose call
\* returned a vector that is not empty (an empty one is skipped like None).
C6_EmbeddingIsolated ==
    /\ AttemptedInTurn
    /\ chunks_with_embeddings = Embedded(Len(attempts), TRUE)
    /\ EmbeddingOver =>
          report = <<Len(Embedded(Len(code_chunks), TRUE)), Len(code_chunks)>>

C6_Witness ==
    /\ EmbeddingOver
    /\ Len(attempts) = 3
    /\ attempts[1].value = None
    /\ attempts[2].value = Some(<<>>)
    /\ ReturnedVector(attempts[3].value)
    /\ Len(chunks_with_embeddings) = 1
    /\ report = <<1, 3>>

\* -------------------------------------------------------------------- C7
Calls ==
    {attempts[k] : k \in 1..Len(attempts)}
        \cup {query_calls[k] : k \in 1..Len(query_calls)}

\* C7: no call of get_ollama_embedding raises; it returns None when the
\* service is unreachable, answers with an error status, or answers without
\* the vector field (or with no JSON at all), and returns the field's vector
\* exactly when the answer is a success that holds the field.
C7_EmbeddingNeverRaises ==
    \A c \in Calls :
        /\ ~c.raised
        /\ c.resp.kind \in {"unreachable", "http_error", "no_field", "bad_json"}
              => c.value = None
        /\ c.resp.kind = "ok" => c.value = c.resp.embedding
        /\ c.value # None => c.resp.kind = "ok"

C7_Witness ==
    /\ \E c \in Calls : c.resp.kind = "unreachable" /\ c.value = None
    /\ \E c \in Calls : c.resp.kind = "http_error" /\ c.value = None
    /\ \E c \in Calls : c.resp.kind = "no_field" /\ c.value = None
    /\ \E c \in Calls : c.resp.kind = "ok" /\ ReturnedVector(c.value)

\* -------------------------------------------------------------------- C8
QueryEmbeddingFailed ==
    query_calls # <<>> /\ query_calls[Len(query_calls)].value = None

\* C8: when the query gets no embedding, the index is not searched, no
\* chunk is retrieved, no prompt is built and the generative service is not
\* called; the run ends having said that the query could not be embedded and
\* that the answer is skipped, and shows no answer.
C8_QueryEmbeddingFailed ==
    QueryEmbeddingFailed =>
        /\ pc \in {"search", "llm", "done"}
        /\ searches = 0
        /\ retrieved_chunks = <<>>
        /\ prompt_for_llm = None
        /\ llm_calls = <<>>
        /\ llm_answer = None
        /\ ~Said("llm_answer")
        /\ pc \in {"llm", "done"} => Said("query_embedding_failed")
        /\ RunOver => log[Len(log)] = "skip_llm"

C8_Witness ==
    /\ RunOver
    /\ QueryEmbeddingFailed
    /\ query_calls[1].resp.kind = "unreachable"
    /\ Len(embeddings_matrix) >= 2
    /\ Said("query_embedding_failed")

\* -------------------------------------------------------------------- C9
GenerationFailed ==
    llm_calls # <<>> /\ llm_calls[Len(llm_calls)].resp.kind # "ok"

\* C9 as stated: when the generative call fails, or its answer lacks the
\* text, the outcome is a failure that no answer can be taken for: no string
\* is returned as the answer and none is shown.
C9_AnswerGenerationFailed ==
    GenerationFailed =>
        /\ llm_answer = None
        /\ ~Said("llm_answer")

\* ------------------------------------------------------------------- C10
AllUnreachable ==
    /\ EmbeddingOver
    /\ \A k \in 1..Len(attempts) : attempts[k].resp.kind = "unreachable"

\* C10 as stated: with the embedding service unreachable for all N chunks,
\* nothing is indexed, the report says 0 out of N, and the query that follows
\* is made and fails with EmptyIndex.
C10_Original ==
    (AllUnreachable /\ RunOver) =>
        /\ embeddings_matrix = <<>>
        /\ report = <<0, Len(code_chunks)>>
        /\ query_calls # <<>>
        /\ log[Len(log)] = "empty_index"

\* C10 as amended: with the embedding service unreachable for all N chunks,
\* nothing is indexed, the report says 0 out of N, and the run ends there,
\* saying that there is nothing to index: no query is embedded, no search is
\* made and no answer is asked for.
C10_NothingIndexed ==
    AllUnreachable =>
        /\ chunks_with_embeddings = <<>>
        /\ embeddings_matrix = <<>>
        /\ n_neighbors = 0
        /\ report = <<0, Len(code_chunks)>>
        /\ pc \in {"index", "done"}
        /\ query_calls = <<>>
        /\ searches = 0
        /\ llm_calls = <<>>
        /\ llm_answer = None
        /\ RunOver => log[Len(log)] = "no_index"

C10_Witness ==
    /\ AllUnreachable
    /\ RunOver
    /\ Len(attempts) = 3
    /\ report = <<0, 3>>

\* ------------------------------------------------------------------ C11
\* the kneighbors call returned
Searched == searches > 0 /\ pc \in {"llm", "done"}

Sorted(ds) ==
    \A i \in 1..Len(ds) : \A j \in i..Len(ds) : ~Nearer(ds[j], ds[i])

\* C11: a query with requested k = desired_n_neighbors against an index of
\* n >= 1 entries returns exactly min(k, n) (chunk, distance) results, whose
\* distances to the query ascend, each chunk being the one whose embedding
\* is the row of the matrix at the returned index; no row left out is nearer
\* than a row returned.
C11_QueryResults ==
    Searched =>
        LET n == Len(embeddings_matrix)
            m == Min(desired_n_neighbors, n)
            q == Get(query_embedding)
        IN  /\ n >= 1
            /\ Len(indices) = m /\ Len(retrieved_chunks) = m /\ Len(distances) = m
            /\ \A i \in 1..m : indices[i] \in 1..n
            /\ \A i \in 1..m : \A j \in 1..m : indices[i] = indices[j] => i = j
            /\ \A i \in 1..m :
                   /\ retrieved_chunks[i] = chunks_with_embeddings[indices[i]]
                   /\ retrieved_chunks[i].embedding = embeddings_matrix[indices[i]]
                   /\ distances[i] = Cos2(q, embeddings_matrix[indices[i]])
            /\ Sorted(distances)
            /\ \A r \in 1..n :
                   (\A i \in 1..m : indices[i] # r) =>
                       \A i \in 1..m : ~Nearer(Cos2(q, embeddings_matrix[r]), distances[i])

\* an index of more rows than were asked for, the rows returned not in the
\* order of their insertion
C11_Witness ==
    /\ Searched
    /\ Len(embeddings_matrix) > desired_n_neighbors
    /\ Len(retrieved_chunks) = desired_n_neighbors
    /\ \E i \in 1..(Len(indices) - 1) : indices[i] > indices[i + 1]
    /\ \E i \in 1..(Len(distances) - 1) : Nearer(distances[i], distances[i + 1])

\* ------------------------------------------------------------------ C12
\* C12: when two indexed entries have equal embeddings (and so the same
\* distance to the query vector), the query returns them in the order in
\* which they were inserted into the index.
C12_TiesInInsertionOrder ==
    Searched =>
        \A i \in 1..Len(indices) : \A j \in (i + 1)..Len(indices) :
            embeddings_matrix[indices[i]] = embeddings_matrix[indices[j]]
                => indices[i] < indices[j]

\* ------------------------------------------------------------------ C13
RetrievedTexts == [i \in 1..Len(retrieved_chunks) |-> retrieved_chunks[i].content]

\* where text i starts in the block, less one: the texts before it and one
\* separator after each
RECURSIVE Offset(_, _)
Offset(texts, i) ==
    IF i = 1 THEN 0 ELSE Offset(texts, i - 1) + Len(texts[i - 1]) + 1

\* C13: the context block sent to the generative service is the text of all
\* retrieved chunks, nearest first, joined by one fixed separator: every
\* retrieved text stands whole at its place, equal texts each time they were
\* retrieved, with one separator between neighbours and nothing else; the
\* prompt holds this block and the original query unchanged.
C13_ContextBlock ==
    llm_calls # <<>> =>
        LET prompt == llm_calls[1].prompt
            context_text == prompt[1]
            texts == RetrievedTexts
            m == Len(texts)
        IN  /\ prompt_for_llm = Some(prompt)
            /\ prompt[2] = query_text
            /\ m = Min(desired_n_neighbors, Len(embeddings_matrix))
            /\ m >= 1
            /\ \A i \in 1..m : retrieved_chunks[i] = chunks_with_embeddings[indices[i]]
            /\ Sorted(distances)
            /\ Len(context_text) = Offset(texts, m) + Len(texts[m])
            /\ \A i \in 1..m : \A j \in 1..Len(texts[i]) :
                   context_text[Offset(texts, i) + j] = texts[i][j]
            /\ \A i \in 1..(m - 1) :
                   context_text[Offset(texts, i) + Len(texts[i]) + 1] = Blank

\* ten chunks were retrieved, two of them of equal text, and the prompt sent
C13_Witness ==
    /\ llm_calls # <<>>
    /\ Len(retrieved_chunks) = desired_n_neighbors
    /\ \E i \in 1..Len(retrieved_chunks) : \E j \in 1..Len(retrieved_chunks) :
           i # j /\ retrieved_chunks[i].content = retrieved_chunks[j].content
    /\ indices[1] > indices[2]

\* ------------------------------------------------------------------ C14
\* the extensions of the denylist that name binary files
BinaryExts == {".jpg", ".png", ".bin", ".class"}

Headers(i) == {j \in 1..Len(files[i].lines) : IsHeader(files[i].lines[j])}
IsTextFile(i) ==
    /\ ~IsPy(i)
    /\ basename(files[i].path).ext \notin BinaryExts
    /\ files[i].readable
    /\ ~BlankText(i)

\* C14: the walk yields, for each parsed .py file that is not blank, 1 module
\* chunk plus one chunk per declaration, and for each readable text file that
\* is not blank and not .py exactly 1 whole-file chunk, only files with
\* binary extensions being skipped; so a directory of one .py file with two
\* function declarations and one text file yields 4 chunks.
C14_ExtractionCounts ==
    /\ \A i \in Processed :
           /\ (Parsed(i) /\ ~BlankText(i)) =>
                  /\ Len(ModulesOf(i)) = 1
                  /\ Len(ChunksOf(i)) = 1 + Cardinality(Headers(i))
           /\ IsTextFile(i) =>
                  /\ Len(ChunksOf(i)) = 1
                  /\ ChunksOf(i)[1].type = "file"
    /\ (/\ WalkReturned
        /\ Len(files) = 2
        /\ \E i \in 1..2 : \E j \in 1..2 :
               /\ Parsed(i)
               /\ Cardinality(Headers(i)) = 2
               /\ \A h \in Headers(i) : files[i].lines[h].kind = "def"
               /\ IsTextFile(j))
           => Len(code_chunks) = 4

\* ------------------------------------------------------------------ C15
Serving == pc \in {"query", "search", "llm"}

\* C15: once the index is built, no step of serving the query (embedding the
\* query, the search, the generative call or its skipping, a crash) changes
\* the chunk lists or the index: the embeddings matrix, the index's
\* n_neighbors, the indexed chunk list and every chunk with its fields and
\* embedding are after the step what they were before it.
C15_QueryLeavesIndex ==
    [][Serving =>
          /\ embeddings_matrix' = embeddings_matrix
          /\ n_neighbors' = n_neighbors
          /\ chunks_with_embeddings' = chunks_with_embeddings
          /\ code_chunks' = code_chunks
          /\ all_chunks' = all_chunks]_vars

\* a query was served to its end over a built index, the generative call
\* having failed
C15_Witness ==
    /\ pc = "done"
    /\ Said("index_built")
    /\ searches = 1
    /\ llm_calls # <<>>
    /\ llm_calls[1].resp.kind = "unreachable"
    /\ embeddings_matrix # <<>>
    /\ Len(chunks_with_embeddings) = Len(embeddings_matrix)

\* ------------------------------------------------------------------ C16
\* how many times msg was printed
Count(msg) == Cardinality({k \in 1..Len(log) : log[k] = msg})

\* msg1 was printed, and before msg2 if msg2 was printed
Before(msg1, msg2) ==
    \A k \in 1..Len(log) : log[k] = msg2 => \E j \in 1..(k - 1) : log[j] = msg1

AttemptsFinished == Len(attempts) = Len(code_chunks) /\ enext > Len(code_chunks)
QueryIssued == query_calls # <<>>

\* every attempt before the index, the report before the query, no query
\* before the index
StepsInOrder ==
    /\ Said("index_built") => AttemptsFinished /\ embeddings_matrix # <<>>
    /\ Before("report", "index_built")
    /\ QueryIssued =>
           /\ AttemptsFinished
           /\ Said("report") /\ report = <<Len(chunks_with_embeddings), Len(code_chunks)>>
           /\ Said("index_built") /\ embeddings_matrix # <<>>
    /\ (searches > 0 \/ llm_calls # <<>>) => QueryIssued

\* C16 as stated: the steps occur in a fixed order and in every run the
\* index is built exactly once.
C16_Original ==
    /\ StepsInOrder
    /\ Count("index_built") <= 1
    /\ RunOver => Count("index_built") = 1

\* C16 as amended: the steps occur in a fixed order (every embedding attempt
\* before the index is built, the report before any query, no query before
\* the index is built); the index is built at most once, exactly once in a
\* run that issues a query, and not at all in a run where no chunk has an
\* embedding.
C16_FixedOrder ==
    /\ StepsInOrder
    /\ Count("index_built") <= 1
    /\ QueryIssued => Count("index_built") = 1
    /\ (RunOver /\ chunks_with_embeddings = <<>>) => Count("index_built") = 0
    /\ (RunOver /\ chunks_with_embeddings # <<>>) => Count("index_built") = 1

\* a run to its end, one embedding attempt failed, the index built, the query
\* served
C16_Witness ==
    /\ RunOver
    /\ \E k \in 1..Len(attempts) : attempts[k].value = None
    /\ Count("index_built") = 1
    /\ QueryIssued
    /\ searches = 1

\* ------------------------------------------- what chunk_files was given
\* file i can be read and holds more than white space
Valid(i) ==
    /\ file_list[i].exists
    /\ file_list[i].readable
    /\ Strip(file_list[i].lines) # <<>>

Submitted == 1..Len(future_to_filepath)
Ended(i) == future_to_filepath[i].state = "finished"

\* ------------------------------------------------------------------ C17
\* C17: chunk_files, given a list that is not empty, returns a list of
\* records, one for each file that is readable and not empty or
\* whitespace-only, each with 'content' and 'metadata' (file_path, file_name,
\* uuid); the other files are skipped; an empty list raises RuntimeError.
C17_ChunkFilesReturns ==
    /\ (file_list = <<>> /\ sh_pc \notin {"off", "start"}) => sh_pc = "raised"
    /\ file_list # <<>> => sh_pc # "raised"
    /\ sh_pc = "returned" =>
           /\ returned # None
           /\ Len(Get(returned)) = Cardinality({i \in 1..Len(file_list) : Valid(i)})
           /\ \A i \in 1..Len(file_list) :
                  Valid(i) =>
                      \E k \in 1..Len(Get(returned)) :
                          /\ DOMAIN Get(returned)[k] = {"content", "metadata"}
                          /\ Get(returned)[k].metadata =
                                 [file_path |-> file_list[i].path,
                                  file_name |-> basename(file_list[i].path),
                                  uuid |-> generate_md5(file_list[i].path)]

\* ------------------------------------------------------------------ C18
TasksInOrder ==
    /\ Len(future_to_filepath) <= Len(file_list)
    /\ \A i \in Submitted :
           /\ future_to_filepath[i].file_path = file_list[i].path
           /\ runs[i] = (IF Ended(i) THEN 1 ELSE 0)
           /\ Cardinality({w \in 1..NUM_THREADS : workers[w] = i}) <= 1
    /\ \A i \in 1..Len(file_list) : i \notin Submitted => runs[i] = 0

AllEndedBeforeCollection ==
    sh_pc \in {"collect", "returned"} =>
        /\ Len(future_to_filepath) = Len(file_list)
        /\ \A i \in Submitted : Ended(i) /\ runs[i] = 1
        /\ \A w \in 1..NUM_THREADS : workers[w] = 0
        /\ work_queue = <<>>

OneRecordPerFile ==
    /\ \A k \in 1..Len(processed_chunks) :
           /\ \E i \in 1..Len(file_list) :
                  processed_chunks[k].metadata.file_path = file_list[i].path
           /\ \A j \in 1..Len(processed_chunks) :
                  processed_chunks[k].metadata.file_path
                      = processed_chunks[j].metadata.file_path => k = j
    /\ \A k \in 1..Len(collected) : \A j \in 1..Len(collected) :
           collected[k] = collected[j] => k = j

EveryResultCollected ==
    sh_pc = "returned" =>
        /\ {collected[k] : k \in 1..Len(collected)} = 1..Len(file_list)
        /\ \A i \in 1..Len(file_list) :
               future_to_filepath[i].result # None =>
                   \E k \in 1..Len(processed_chunks) :
                       processed_chunks[k] = Get(future_to_filepath[i].result)

\* a step that changes processed_chunks is a turn of the calling thread's
\* loop, not a step of a worker
AppendedByCaller ==
    processed_chunks' # processed_chunks =>
        /\ sh_pc = "collect"
        /\ workers' = workers
        /\ future_to_filepath' = future_to_filepath
        /\ Len(collected') = Len(collected) + 1

\* C18: in every interleaving of the worker threads, each file of the list
\* has one task, run once and by one worker; every task has ended before the
\* first result is collected; processed_chunks is changed only by the calling
\* thread and holds at most one record per file; and when chunk_files ends
\* every future was collected, whatever the tasks of the other files came to.
C18_TasksAndCollection ==
    /\ [](TasksInOrder /\ AllEndedBeforeCollection /\ OneRecordPerFile
             /\ EveryResultCollected)
    /\ [][AppendedByCaller]_vars

\* chunk_files ended over a list with a file that is gone and a file of
\* text, with two worker threads, the futures collected out of their order
C18_Witness ==
    /\ sh_pc = "returned"
    /\ NUM_THREADS = 2
    /\ \E i \in 1..Len(file_list) : ~file_list[i].exists
    /\ \E i \in 1..Len(file_list) : Valid(i)
    /\ \A i \in 1..Len(file_list) : runs[i] = 1
    /\ Len(collected) = Len(file_list)
    /\ \E k \in 1..(Len(collected) - 1) : collected[k] > collected[k + 1]
====
